---- MODULE Spec2Model ----
(***************************************************************************)
(* Model of ocw/lib/EC2.py: the EC2 provider adapter.                      *)
(*                                                                         *)
(* The program is single threaded.  The state is the class-level           *)
(* dictionary EC2.__instances with the private fields of every provider    *)
(* instance, the position of the constructor call in progress (pc, cur),   *)
(* and a record of the last completed call (last).  The vault credential   *)
(* object (ocw/lib/vault.py) and the two Provider helpers                  *)
(* parse_image_name_helper and get_keeping_image_names                     *)
(* (ocw/lib/provider.py) are not part of EC2.py; they are modelled by what *)
(* EC2.py relies on.  boto3 calls are inputs of the actions.               *)
(***************************************************************************)
EXTENDS Integers, Sequences, FiniteSets, TLC

\* ----------------------------------------------------------------- bounds
\* how many times the credential of one namespace can expire
MaxRenew == 1
\* how many images describe_images reports
MaxImages == 3
\* how many instances instances.filter reports
MaxLookup == 2

\* ------------------------------------------------------------ environment
None == <<"None">>

DefaultRegion == "eu-central-1"

AllRegions == {"eu-central-1", "us-east-1"}

Namespaces == {"qac", "qam"}

\* A deployment fixes the vault namespaces the callers use and the region
\* list describe_regions reports.
Deployments ==
    { [namespaces |-> {"qac", "qam"}, regions |-> <<"eu-central-1">>],
      [namespaces |-> {"qac"}, regions |-> <<"eu-central-1", "us-east-1">>] }

InstanceIds == {"i-1", "i-2"}

Range(s) == {s[k] : k \in DOMAIN s}

EmptyDict == [x \in {} |-> None]

Services == {"ec2_resource", "ec2_client", "eks_client"}

VARIABLES deployment, instances, made, ncreds, returned, pc, cur, last

vars == <<deployment, instances, made, ncreds, returned, pc, cur, last>>

\* ------------------------------------------------- vault credential object
EC2Credential(vault_namespace, expired) ==
    [namespace |-> vault_namespace, gen |-> 0, expired |-> expired]

isExpired(cred) == cred.expired

renew(cred) == [cred EXCEPT !.gen = @ + 1, !.expired = FALSE]

getData(cred, name) == <<name, cred.namespace, cred.gen>>

\* ---------------------------------------------------------------- __new__
\* the lookup of line 16 left out: every call creates an instance
RegisteredNever(insts, vault_namespace) == FALSE

Registered(insts, vault_namespace) == vault_namespace \in DOMAIN insts

NewObject(oid, cred) ==
    [oid |-> oid,
     credentials |-> cred,
     ec2_client |-> EmptyDict,
     eks_client |-> EmptyDict,
     ec2_resource |-> EmptyDict,
     secret |-> None,
     key |-> None,
     built |-> [s \in Services |-> [r \in AllRegions |-> 0]]]

Register(insts, vault_namespace, self) ==
    (vault_namespace :> self) @@ insts

RECURSIVE SumOver(_, _)
SumOver(f, S) ==
    IF S = {} THEN 0
    ELSE LET x == CHOOSE y \in S : TRUE IN f[x] + SumOver(f, S \ {x})

\* ------------------------------------------------------- lazy SDK clients
Boto3(kind, service, self, region, slot) ==
    [kind |-> kind, service |-> service,
     aws_access_key_id |-> self.key,
     aws_secret_access_key |-> self.secret,
     region_name |-> region,
     serial |-> self.built[slot][region] + 1]

ec2_resource(self, region) ==
    IF region \notin DOMAIN self.ec2_resource
    THEN [self EXCEPT
            !.ec2_resource = (region :> Boto3("resource", "ec2", self, region, "ec2_resource")) @@ @,
            !.built["ec2_resource"][region] = @ + 1]
    ELSE self

\* the membership test of line 58 left out: every call builds a client
ec2_client_rebuild(self, region) ==
    [self EXCEPT
        !.ec2_client = (region :> Boto3("client", "ec2", self, region, "ec2_client")) @@ @,
        !.built["ec2_client"][region] = @ + 1]

ec2_client(self, region) ==
    IF region \notin DOMAIN self.ec2_client
    THEN [self EXCEPT
            !.ec2_client = (region :> Boto3("client", "ec2", self, region, "ec2_client")) @@ @,
            !.built["ec2_client"][region] = @ + 1]
    ELSE self

eks_client(self, region) ==
    IF region \notin DOMAIN self.eks_client
    THEN [self EXCEPT
            !.eks_client = (region :> Boto3("client", "eks", self, region, "eks_client")) @@ @,
            !.built["eks_client"][region] = @ + 1]
    ELSE self

\* ------------------------------------------------------ check_credentials
\* range(1, 60 * 5 + 1): one pass too many
LoopRangeInclusive == 1 .. (60 * 5)

LoopRange == 1 .. (60 * 5 - 1)

\* time.sleep(i): a linear backoff
SleepBackoff(i) == i

SleepArg(i) == 1

\* line 34 left out: the ec2 clients survive a renewal
ResetClientsKeepEc2(self) ==
    [self EXCEPT !.key = None,
                 !.secret = None,
                 !.ec2_resource = EmptyDict,
                 !.eks_client = EmptyDict]

\* line 35 left out: the eks clients survive a renewal
ResetClientsKeepEks(self) ==
    [self EXCEPT !.key = None,
                 !.secret = None,
                 !.ec2_resource = EmptyDict,
                 !.ec2_client = EmptyDict]

ResetClients(self) ==
    [self EXCEPT !.key = None,
                 !.secret = None,
                 !.ec2_resource = EmptyDict,
                 !.ec2_client = EmptyDict,
                 !.eks_client = EmptyDict]

ReadKeys(self) ==
    [self EXCEPT !.secret = getData(self.credentials, "secret_key"),
                 !.key = getData(self.credentials, "access_key")]

NoCall == [ns |-> "", i |-> 0, wasExpired |-> FALSE, renews |-> 0,
           attempts |-> 0, succeeded |-> 0, failed |-> 0, caught |-> 0,
           sleeps |-> 0, slept |-> 0, interval |-> 0, result |-> "running"]

Idle == [op |-> "none", ns |-> "", arg |-> <<>>, raised |-> FALSE,
         ret |-> <<>>, calls |-> <<>>]

Init ==
    /\ deployment \in Deployments
    /\ instances = EmptyDict
    /\ made = [ns \in Namespaces |-> 0]
    /\ ncreds = [ns \in Namespaces |-> 0]
    /\ returned = [ns \in Namespaces |-> 0]
    /\ pc = "idle"
    /\ cur = NoCall
    /\ last = Idle

\* EC2(vault_namespace), lines 16-25: look the namespace up, create and
\* register the instance on a miss, then enter check_credentials.
New(vault_namespace, fresh) ==
    /\ pc = "idle"
    /\ vault_namespace \in deployment.namespaces
    /\ IF ~Registered(instances, vault_namespace)
       THEN /\ instances' = Register(instances, vault_namespace,
                               NewObject(SumOver(made, Namespaces) + 1,
                                         EC2Credential(vault_namespace, fresh)))
            /\ made' = [made EXCEPT ![vault_namespace] = @ + 1]
            /\ ncreds' = [ncreds EXCEPT ![vault_namespace] = @ + 1]
       ELSE /\ fresh    \* no credential is created on a hit: the input is unused
            /\ UNCHANGED <<instances, made, ncreds>>
    /\ pc' = "check"
    /\ cur' = [NoCall EXCEPT !.ns = vault_namespace]
    /\ last' = [Idle EXCEPT !.op = "EC2", !.ns = vault_namespace]
    /\ UNCHANGED <<deployment, returned>>

\* check_credentials, lines 29-38.  renewOk tells whether the vault answers
\* the renewal; a renewal that raises leaves the lease as it was.
CheckExpiry(renewOk) ==
    /\ pc = "check"
    /\ LET self == instances[cur.ns] IN
       IF isExpired(self.credentials)
       THEN IF renewOk
            THEN LET renewed == [self EXCEPT !.credentials = renew(@),
                                     !.built = [s \in Services |-> [r \in AllRegions |-> 0]]]
                 IN /\ instances' = [instances EXCEPT ![cur.ns] = ReadKeys(ResetClients(renewed))]
                    /\ pc' = "loop"
                    /\ cur' = [cur EXCEPT !.wasExpired = TRUE, !.renews = @ + 1,
                                          !.i = 1]
            ELSE /\ pc' = "done"
                 /\ cur' = [cur EXCEPT !.wasExpired = TRUE, !.renews = @ + 1,
                                       !.result = "raised"]
                 /\ UNCHANGED instances
       ELSE /\ renewOk    \* renew is not called: the input is unused
            /\ instances' = [instances EXCEPT ![cur.ns] = ReadKeys(self)]
            /\ pc' = "loop"
            /\ cur' = [cur EXCEPT !.i = 1]
    /\ UNCHANGED <<deployment, made, ncreds, returned, last>>

\* all_regions, lines 82-85: the default-region ec2 client is built on
\* demand, then describe_regions either answers or raises.
all_regions(self) == ec2_client(self, DefaultRegion)

\* One pass of the loop body, lines 40-47, with the SDK's answer `ok`.
LoopStep(c, ok) ==
    IF ok
    THEN [c EXCEPT !.attempts = @ + 1, !.succeeded = @ + 1, !.result = "True"]
    ELSE [c EXCEPT !.attempts = @ + 1, !.failed = @ + 1, !.caught = @ + 1,
                   !.sleeps = @ + 1, !.slept = @ + SleepArg(c.i),
                   !.interval = SleepArg(c.i), !.i = @ + 1]

\* The call after the loop, line 48: its value is dropped and its
\* exception is not caught.
FinalStep(c, ok) ==
    IF ok
    THEN [c EXCEPT !.attempts = @ + 1, !.succeeded = @ + 1, !.result = "None"]
    ELSE [c EXCEPT !.attempts = @ + 1, !.failed = @ + 1, !.result = "raised"]

Attempt(ok) ==
    /\ pc = "loop"
    /\ cur.i \in LoopRange
    /\ instances' = [instances EXCEPT ![cur.ns] = all_regions(@)]
    /\ cur' = LoopStep(cur, ok)
    /\ pc' = IF cur'.result # "running" THEN "done" ELSE "loop"
    /\ UNCHANGED <<deployment, made, ncreds, returned, last>>

FinalAttempt(ok) ==
    /\ pc = "loop"
    /\ cur.i \notin LoopRange
    /\ instances' = [instances EXCEPT ![cur.ns] = all_regions(@)]
    /\ cur' = FinalStep(cur, ok)
    /\ pc' = "done"
    /\ UNCHANGED <<deployment, made, ncreds, returned, last>>

\* a constructor that forgets the instance when check_credentials raises
ReturnUnregister ==
    /\ pc = "done"
    /\ IF cur.result = "raised"
       THEN /\ last' = [last EXCEPT !.raised = TRUE, !.ret = <<"exception">>]
            /\ instances' = [ns \in DOMAIN instances \ {cur.ns} |-> instances[ns]]
            /\ UNCHANGED returned
       ELSE /\ last' = [last EXCEPT !.ret = <<"EC2", instances[cur.ns].oid>>]
            /\ returned' = [returned EXCEPT ![cur.ns] = instances[cur.ns].oid]
            /\ UNCHANGED instances
    /\ pc' = "idle"
    /\ cur' = NoCall
    /\ UNCHANGED <<deployment, made, ncreds>>

\* __new__, lines 25-26: check_credentials is over; its exception
\* propagates, otherwise the registered instance is returned.
Return ==
    /\ pc = "done"
    /\ IF cur.result = "raised"
       THEN /\ last' = [last EXCEPT !.raised = TRUE, !.ret = <<"exception">>]
            /\ UNCHANGED returned
       ELSE /\ last' = [last EXCEPT !.ret = <<"EC2", instances[cur.ns].oid>>]
            /\ returned' = [returned EXCEPT ![cur.ns] = instances[cur.ns].oid]
    /\ pc' = "idle"
    /\ cur' = NoCall
    /\ UNCHANGED <<deployment, instances, made, ncreds>>

\* Time passes and the vault lease of a namespace runs out; this can happen
\* at any moment, also while the retry loop sleeps.
Expire(ns) ==
    /\ ns \in DOMAIN instances
    /\ ~instances[ns].credentials.expired
    /\ instances[ns].credentials.gen < MaxRenew
    /\ instances' = [instances EXCEPT ![ns].credentials.expired = TRUE]
    /\ last' = IF pc = "idle" THEN [Idle EXCEPT !.op = "expire", !.ns = ns] ELSE last
    /\ UNCHANGED <<deployment, made, ncreds, returned, pc, cur>>

\* ------------------------------------------- calls on a returned instance
Holds(ns) == pc = "idle" /\ ns \in deployment.namespaces /\ returned[ns] # 0

Ec2Resource(ns, region) ==
    /\ Holds(ns)
    /\ region \in Range(deployment.regions)
    /\ instances' = [instances EXCEPT ![ns] = ec2_resource(@, region)]
    /\ last' = [Idle EXCEPT !.op = "ec2_resource", !.ns = ns, !.arg = region,
                            !.ret = instances'[ns].ec2_resource[region]]
    /\ UNCHANGED <<deployment, made, ncreds, returned, pc, cur>>

Ec2Client(ns, region) ==
    /\ Holds(ns)
    /\ region \in Range(deployment.regions)
    /\ instances' = [instances EXCEPT ![ns] = ec2_client(@, region)]
    /\ last' = [Idle EXCEPT !.op = "ec2_client", !.ns = ns, !.arg = region,
                            !.ret = instances'[ns].ec2_client[region]]
    /\ UNCHANGED <<deployment, made, ncreds, returned, pc, cur>>

EksClient(ns, region) ==
    /\ Holds(ns)
    /\ region \in Range(deployment.regions)
    /\ instances' = [instances EXCEPT ![ns] = eks_client(@, region)]
    /\ last' = [Idle EXCEPT !.op = "eks_client", !.ns = ns, !.arg = region,
                            !.ret = instances'[ns].eks_client[region]]
    /\ UNCHANGED <<deployment, made, ncreds, returned, pc, cur>>

\* all_regions called by the holder of the instance, lines 82-85
ListRegions(ns, ok) ==
    /\ Holds(ns)
    /\ instances' = [instances EXCEPT ![ns] = all_regions(@)]
    /\ last' = [Idle EXCEPT !.op = "all_regions", !.ns = ns, !.raised = ~ok,
                            !.ret = IF ok THEN deployment.regions ELSE <<>>]
    /\ UNCHANGED <<deployment, made, ncreds, returned, pc, cur>>

\* all_clusters, lines 71-77: one eks client per reported region, in order
RECURSIVE EksForAll(_, _)
EksForAll(self, regions) ==
    IF regions = <<>> THEN self
    ELSE EksForAll(eks_client(self, Head(regions)), Tail(regions))

all_clusters(self, ok) ==
    IF ok THEN EksForAll(all_regions(self), deployment.regions)
    ELSE all_regions(self)

ListClusters(ns, ok) ==
    /\ Holds(ns)
    /\ instances' = [instances EXCEPT ![ns] = all_clusters(@, ok)]
    /\ last' = [Idle EXCEPT !.op = "all_clusters", !.ns = ns, !.raised = ~ok]
    /\ UNCHANGED <<deployment, made, ncreds, returned, pc, cur>>

\* list_instances, lines 79-80
ListInstances(ns, region) ==
    /\ Holds(ns)
    /\ region \in Range(deployment.regions)
    /\ instances' = [instances EXCEPT ![ns] = ec2_resource(@, region)]
    /\ last' = [Idle EXCEPT !.op = "list_instances", !.ns = ns, !.arg = region]
    /\ UNCHANGED <<deployment, made, ncreds, returned, pc, cur>>

\* terminate called on every instance of the answer
delete_instance_all(instance_id, instances_list) ==
    IF Len(instances_list) > 0
    THEN [k \in DOMAIN instances_list |-> <<"terminate", instances_list[k]>>]
    ELSE << <<"warning", instance_id>> >>

\* delete_instance, lines 87-92.  instances_list is the SDK's answer to
\* instances.filter(InstanceIds=[instance_id]); the result is the sequence
\* of calls the method makes.
delete_instance(instance_id, instances_list) ==
    IF Len(instances_list) > 0
    THEN << <<"terminate", instances_list[1]>> >>
    ELSE << <<"warning", instance_id>> >>

DeleteInstance(ns, instance_id, instances_list) ==
    /\ Holds(ns)
    /\ instances' = [instances EXCEPT ![ns] = ec2_resource(@, DefaultRegion)]
    /\ last' = [Idle EXCEPT !.op = "delete_instance", !.ns = ns,
                            !.arg = [instance_id |-> instance_id,
                                     instances_list |-> instances_list],
                            !.calls = delete_instance(instance_id, instances_list)]
    /\ UNCHANGED <<deployment, made, ncreds, returned, pc, cur>>

\* ------------------------------------------------------ image name parsing
ImageNames ==
    { "openqa-SLES12-SP5-EC2.x86_64-0.9.1-BYOS-Build1.55.raw.xz",
      "openqa-SLES15-SP2.x86_64-0.9.3-EC2-HVM-Build1.10.raw.xz",
      "openqa-SLES12-SP4-EC2-HVM-BYOS.x86_64-0.9.2-Build2.56.raw.xz",
      "do-not-delete-me" }

NoMatch == [regex |-> 0, version |-> "", flavor |-> "", type |-> "",
            arch |-> "", kiwi |-> "", build |-> ""]

\* The groups of the first of the three expressions of lines 95-140 that
\* matches img_name (regex = 0 and empty groups when none does; an unset
\* optional group is the empty string).
RegexMatch(img_name) ==
    CASE img_name = "openqa-SLES12-SP5-EC2.x86_64-0.9.1-BYOS-Build1.55.raw.xz" ->
            [regex |-> 1, version |-> "12-SP5", flavor |-> "EC2", type |-> "BYOS",
             arch |-> "x86_64", kiwi |-> "0.9.1", build |-> "1.55"]
      [] img_name = "openqa-SLES15-SP2.x86_64-0.9.3-EC2-HVM-Build1.10.raw.xz" ->
            [regex |-> 2, version |-> "15-SP2", flavor |-> "EC2-HVM", type |-> "",
             arch |-> "x86_64", kiwi |-> "0.9.3", build |-> "1.10"]
      [] img_name = "openqa-SLES12-SP4-EC2-HVM-BYOS.x86_64-0.9.2-Build2.56.raw.xz" ->
            [regex |-> 3, version |-> "12-SP4", flavor |-> "EC2-HVM-BYOS", type |-> "",
             arch |-> "x86_64", kiwi |-> "0.9.2", build |-> "2.56"]
      [] OTHER -> NoMatch

\* Provider.parse_image_name_helper: a falsy value when nothing matched,
\* otherwise the flavor key and the build of the name.
parse_image_name_helper(groups) ==
    [matched |-> groups.regex # 0,
     key |-> <<groups.version, groups.flavor, groups.type, groups.arch>>,
     build |-> <<groups.kiwi, groups.build>>]

parse_image_name(img_name) == parse_image_name_helper(RegexMatch(img_name))

\* ------------------------------------------------------------ cleanup_all
Image(name, flavor, build, date, img_id) ==
    [name |-> name, flavor |-> flavor, build |-> build, date |-> date, id |-> img_id]

\* describe_images(Owners=['self']): the k-th image reported has the given
\* name, the image id k and the creation date k.
Response(names) ==
    [k \in DOMAIN names |-> [Name |-> names[k], ImageId |-> k, CreationDate |-> k]]

\* An account holds at most one image of a name.
Responses ==
    { names \in UNION { [1 .. n -> ImageNames] : n \in 0 .. MaxImages } :
        \A j, k \in DOMAIN names : names[j] = names[k] => j = k }

\* lines 145-156: the images whose name parses, in the order reported
RECURSIVE Candidates(_)
Candidates(resp) ==
    IF resp = <<>> THEN <<>>
    ELSE LET img == Head(resp)
             m == parse_image_name(img.Name)
         IN (IF m.matched
             THEN <<Image(img.Name, m.key, m.build, img.CreationDate, img.ImageId)>>
             ELSE <<>>) \o Candidates(Tail(resp))

\* Provider.get_keeping_image_names: some of the names of the images given
KeepChoices(images) == SUBSET {images[k].name : k \in DOMAIN images}

\* the filter of line 160 left out: kept images are deregistered too
ToDeleteAll(images, keep_images) == images

\* lines 160-162: the images to deregister, in order
ToDelete(images, keep_images) ==
    SelectSeq(images, LAMBDA i : i.name \notin keep_images)

cleanup_all(resp, keep_images) ==
    LET doomed == ToDelete(Candidates(resp), keep_images)
    IN [k \in DOMAIN doomed |-> <<"deregister_image", doomed[k].id>>]

CleanupAll(ns, names, keep_images) ==
    /\ Holds(ns)
    /\ instances' = [instances EXCEPT ![ns] = ec2_client(@, DefaultRegion)]
    /\ last' = [Idle EXCEPT !.op = "cleanup_all", !.ns = ns,
                            !.arg = [images |-> Response(names), keep |-> keep_images],
                            !.calls = cleanup_all(Response(names), keep_images)]
    /\ UNCHANGED <<deployment, made, ncreds, returned, pc, cur>>

Lifecycle ==
    \/ \E ns \in Namespaces, fresh \in BOOLEAN : New(ns, fresh)
    \/ \E renewOk \in BOOLEAN : CheckExpiry(renewOk)
    \/ \E ok \in BOOLEAN : Attempt(ok)
    \/ \E ok \in BOOLEAN : FinalAttempt(ok)
    \/ Return
    \/ \E ns \in Namespaces : Expire(ns)

Next ==
    \/ Lifecycle
    \/ \E ns \in Namespaces, region \in AllRegions : Ec2Resource(ns, region)
    \/ \E ns \in Namespaces, region \in AllRegions : Ec2Client(ns, region)
    \/ \E ns \in Namespaces, region \in AllRegions : EksClient(ns, region)
    \/ \E ns \in Namespaces, ok \in BOOLEAN : ListRegions(ns, ok)
    \/ \E ns \in Namespaces, ok \in BOOLEAN : ListClusters(ns, ok)
    \/ \E ns \in Namespaces, region \in AllRegions : ListInstances(ns, region)

\* The provider with its clients, for two tenants or for two regions.
Spec == Init /\ [][Next]_vars

\* One tenant, with the calls that delete cloud resources.
InitCleanup ==
    /\ Init
    /\ Cardinality(deployment.namespaces) = 1

Lookups == UNION { [1 .. n -> InstanceIds] : n \in 0 .. MaxLookup }

NextCleanup ==
    \/ Lifecycle
    \/ \E ns \in Namespaces, id \in InstanceIds, found \in Lookups :
          DeleteInstance(ns, id, found)
    \/ \E ns \in Namespaces, names \in Responses :
          \E keep \in KeepChoices(Candidates(Response(names))) :
              CleanupAll(ns, names, keep)

SpecCleanup == InitCleanup /\ [][NextCleanup]_vars

\* ================================================================ claims
Caches(self) ==
    [s \in Services |-> self[s]]

CachedClients(self) ==
    UNION { Range(self[s]) : s \in Services }

Succeeded == cur.result \in {"True", "None"}

\* C1: after any sequence of EC2(ns) constructions there is exactly one
\* provider instance per namespace ever requested: a namespace is registered
\* exactly when one object and one EC2Credential were created for it, never
\* more; every construction of ns returns that one object; the objects
\* of different namespaces differ.
C1_OneInstancePerNamespace ==
    /\ \A ns \in Namespaces :
          /\ made[ns] <= 1
          /\ ncreds[ns] = made[ns]
          /\ (ns \in DOMAIN instances) <=> (made[ns] = 1)
          /\ returned[ns] # 0 =>
                ns \in DOMAIN instances /\ returned[ns] = instances[ns].oid
    /\ \A a, b \in DOMAIN instances :
          a # b => instances[a].oid # instances[b].oid
    /\ \A a, b \in Namespaces :
          (a # b /\ returned[a] # 0) => returned[a] # returned[b]

\* a second construction of a namespace completes while both namespaces
\* have been handed out already
C1_Witness ==
    /\ pc = "done" /\ cur.result = "True"
    /\ returned[cur.ns] # 0
    /\ \A ns \in Namespaces : returned[ns] # 0

\* C2: check_credentials makes at most 300 all_regions attempts; it catches
\* the exception of every failed attempt among the first 299; it goes on
\* only after a failure and stops at the first success; when the first 299
\* all fail, the exception of the 300th attempt is not caught and reaches the
\* caller.
C2_RetryCeiling ==
    /\ cur.attempts <= 300
    /\ cur.succeeded <= 1
    /\ cur.attempts = cur.failed + cur.succeeded
    /\ cur.caught = (IF cur.failed <= 299 THEN cur.failed ELSE 299)
    /\ pc = "loop" => cur.succeeded = 0 /\ cur.attempts = cur.i - 1
    /\ (pc = "done" /\ Succeeded) => cur.succeeded = 1
    /\ (pc = "done" /\ cur.failed = 300) => cur.result = "raised"
    /\ (pc = "done" /\ cur.result = "raised" /\ cur.attempts > 0) =>
          cur.attempts = 300 /\ cur.failed = 300 /\ cur.caught = 299

C2_Witness ==
    pc = "done" /\ cur.result = "raised" /\ cur.attempts = 300 /\ cur.caught = 299

\* C3: the loop is a fixed-interval poll: one sleep of one second after each
\* caught failure, the same interval every time, none after a success and
\* none after the 300th attempt, so sleeps = caught failures <= 299.
C3_FixedIntervalPoll ==
    /\ cur.sleeps = cur.caught
    /\ cur.sleeps <= 299
    /\ cur.slept = cur.sleeps
    /\ cur.sleeps > 0 => cur.interval = 1
    /\ cur.sleeps = (IF cur.failed <= 299 THEN cur.failed ELSE 299)
    /\ (pc = "done" /\ Succeeded) => cur.sleeps = cur.attempts - 1
    /\ cur.attempts = 300 => cur.sleeps = 299

C3_Witness ==
    pc = "done" /\ cur.result = "None" /\ cur.sleeps = 299 /\ cur.slept = 299

\* C4: a check_credentials that starts with expired credentials calls renew
\* once and has the three client caches empty before its first all_regions
\* attempt, so every client it uses afterwards carries the renewed key; one
\* that starts with live credentials does not call renew and removes no
\* cached client.  No renew happens once the attempts have begun.
C4_Step ==
    /\ (pc = "check" /\ pc' # "check") =>
          LET self == instances[cur.ns]
              after == instances'[cur.ns]
          IN IF isExpired(self.credentials)
             THEN /\ cur'.renews = 1
                  /\ pc' = "loop" =>
                        /\ cur'.attempts = 0
                        /\ \A s \in Services : DOMAIN after[s] = {}
                        /\ after.credentials.gen = self.credentials.gen + 1
                        /\ ~isExpired(after.credentials)
             ELSE /\ cur'.renews = 0
                  /\ pc' = "loop"
                  /\ Caches(after) = Caches(self)
                  /\ after.credentials = self.credentials
    /\ pc = "loop" => cur'.renews = cur.renews
    /\ pc' \in {"loop", "done"} =>
          \A c \in CachedClients(instances'[cur'.ns]) :
              c.aws_access_key_id = getData(instances'[cur'.ns].credentials, "access_key")

C5_Step ==
    \A ns \in DOMAIN instances :
        LET self == instances[ns]
            after == instances'[ns]
        IN /\ \A s \in Services, r \in AllRegions : after.built[s][r] <= 1
           /\ after.credentials.gen = self.credentials.gen =>
                 \A s \in Services : \A r \in DOMAIN self[s] :
                     r \in DOMAIN after[s] /\ after[s][r] = self[s][r]
           /\ (pc = "idle" /\ last'.op \in Services /\ last'.ns = ns) =>
                 LET g == last'.op
                     r == last'.arg
                 IN /\ last'.ret = after[g][r]
                    /\ r \in DOMAIN self[g] =>
                          after = self /\ last'.ret = self[g][r]
                    /\ r \notin DOMAIN self[g] =>
                          after.built[g][r] = 1 /\ last'.ret.serial = 1
                    /\ \A s \in Services \ {g} :
                          after[s] = self[s] /\ after.built[s] = self.built[s]
                    /\ \A q \in AllRegions \ {r} :
                          /\ (q \in DOMAIN after[g]) <=> (q \in DOMAIN self[g])
                          /\ after.built[g][q] = self.built[g][q]

C5_LazyClients == [][C5_Step]_vars

\* the eks client of the second region was just built next to other clients
C5_Witness ==
    /\ last.op = "eks_client" /\ last.arg = "us-east-1"
    /\ DOMAIN instances[last.ns].eks_client = AllRegions
    /\ DOMAIN instances[last.ns].ec2_client = AllRegions
    /\ DOMAIN instances[last.ns].ec2_resource = {DefaultRegion}
    /\ instances[last.ns].credentials.gen = 1

\* C6: cleanup_all deregisters exactly the reported images whose name
\* parses and is not among the names to keep, each once; it never
\* deregisters an image whose name does not parse or is kept.
C6_CleanupDecides ==
    last.op = "cleanup_all" =>
        LET imgs == last.arg.images
            gone == {last.calls[k][2] : k \in DOMAIN last.calls}
        IN /\ \A k \in DOMAIN last.calls : last.calls[k][1] = "deregister_image"
           /\ \A j, k \in DOMAIN last.calls :
                 last.calls[j][2] = last.calls[k][2] => j = k
           /\ \A k \in DOMAIN imgs :
                 (imgs[k].ImageId \in gone) <=>
                     /\ RegexMatch(imgs[k].Name).regex # 0
                     /\ imgs[k].Name \notin last.arg.keep
           /\ gone \subseteq {imgs[k].ImageId : k \in DOMAIN imgs}
           /\ ~last.raised

\* three images: one that does not parse, one kept, one deregistered
C6_Witness ==
    /\ last.op = "cleanup_all"
    /\ Len(last.arg.images) = 3
    /\ last.arg.images[1].Name = "do-not-delete-me"
    /\ last.arg.keep = {last.arg.images[2].Name}
    /\ last.calls = << <<"deregister_image", 3>> >>

\* C7: delete_instance terminates the first instance of a non-empty lookup
\* answer and no other; on an empty answer it terminates nothing, logs one
\* warning and does not raise.
C7_DeleteOne ==
    last.op = "delete_instance" =>
        LET found == last.arg.instances_list
            terminated == SelectSeq(last.calls, LAMBDA c : c[1] = "terminate")
            warned == SelectSeq(last.calls, LAMBDA c : c[1] = "warning")
        IN /\ ~last.raised
           /\ Len(terminated) + Len(warned) = Len(last.calls)
           /\ Len(found) > 0 =>
                 /\ Len(terminated) = 1
                 /\ terminated[1][2] = found[1]
                 /\ Len(warned) = 0
           /\ Len(found) = 0 =>
                 /\ Len(terminated) = 0
                 /\ Len(warned) = 1
                 /\ warned[1][2] = last.arg.instance_id

\* the lookup answered with two different instances
C7_Witness ==
    /\ last.op = "delete_instance"
    /\ Len(last.arg.instances_list) = 2
    /\ last.arg.instances_list[1] # last.arg.instances_list[2]
    /\ last.calls = << <<"terminate", last.arg.instances_list[1]>> >>

\* C8: whenever check_credentials returns without raising, it returns True.
C8_ReturnsTrue ==
    (pc = "done" /\ cur.result # "raised") => cur.result = "True"

\* C9: every client in the three caches of an instance was built with the
\* access key and secret key the instance stores now, which are not None.
C9_ClientsCarryCurrentKeys ==
    \A ns \in DOMAIN instances :
        \A c \in CachedClients(instances[ns]) :
            /\ c.aws_access_key_id = instances[ns].key
            /\ c.aws_secret_access_key = instances[ns].secret
            /\ c.aws_access_key_id # None
            /\ c.aws_secret_access_key # None

\* after a renewal the instance holds clients in two caches again
C9_Witness ==
    /\ pc = "idle"
    /\ \E ns \in DOMAIN instances :
          /\ instances[ns].credentials.gen = 1
          /\ returned[ns] # 0
          /\ DOMAIN instances[ns].eks_client # {}
          /\ DOMAIN instances[ns].ec2_client # {}
          /\ instances[ns].key = <<"access_key", ns, 1>>

\* C10: the instance is registered before check_credentials runs; every
\* construction runs check_credentials, a cache hit too; a registered
\* instance stays registered with the same object and credential whatever
\* check_credentials does; the constructor hands an instance out only when
\* a check_credentials call on it has ended without raising.
C10_Step ==
    /\ pc' # "idle" => cur'.ns \in DOMAIN instances'
    /\ (pc = "idle" /\ pc' # "idle") => pc' = "check" /\ cur'.attempts = 0
    /\ \A ns \in DOMAIN instances :
          /\ ns \in DOMAIN instances'
          /\ instances'[ns].oid = instances[ns].oid
          /\ instances'[ns].credentials.namespace = ns
          /\ ncreds'[ns] = ncreds[ns]
          /\ made'[ns] = made[ns]
    /\ \A ns \in Namespaces :
          returned'[ns] # returned[ns] =>
              /\ pc = "done" /\ cur.ns = ns /\ Succeeded
              /\ returned'[ns] = instances[ns].oid
    /\ (last'.op = "EC2" /\ last'.ret # <<>> /\ last' # last) =>
          /\ pc = "done"
          /\ (last'.raised <=> ~Succeeded)

C10_RegisterThenCheck == [][C10_Step]_vars

\* a construction ends well on an instance whose earlier construction
\* renewed the credentials and then raised
C10_Witness ==
    /\ pc = "done" /\ cur.result = "True" /\ ~cur.wasExpired
    /\ returned[cur.ns] = 0
    /\ instances[cur.ns].credentials.gen = 1

====
